---- MODULE Spec2Model ----
(***************************************************************************)
(* The gitin prompt engine: the stream-backed list (AsyncList) with its    *)
(* population goroutine, and the Prompt's input task and main loop.        *)
(*                                                                         *)
(* Indices are Go's: cursor and start count from 0, so the item at the     *)
(* cursor is Scope[cursor + 1].  An item is a natural number: 0 is the nil *)
(* interface value, k > 0 an item whose text is TextOf(k); two items are   *)
(* equal under Go's == exactly when their numbers are equal.               *)
(*                                                                         *)
(* A Go slice is a header (array, len, cap).  l.items is modelled by the   *)
(* record items = [arr, len]: arr is the whole backing array (Len(arr) is  *)
(* the capacity).  l.scope either shares that array (after                 *)
(* `l.scope = l.items`) or has an array of its own.                        *)
(***************************************************************************)
EXTENDS Integers, Sequences, FiniteSets, TLC

VARIABLES
    list,       \* the AsyncList l: [items, scope, matches, cursor, size, start, find]
    pop,        \* the population goroutine: [pc, flush, done, val, tmp]
    nRecv,      \* values the goroutine has received from itemsChan so far
    nUpdate,    \* sends on l.update that a receiver has taken so far
    filtered,   \* history: the last Search/CancelSearch call left a filter on
    p,          \* the Prompt's fields and hooks
    events,     \* p.events: [q |-> queued keyEvents, closed |-> BOOLEAN]
    main,       \* the task running Run and mainloop
    inp,        \* the task running spawnEvents
    tty,        \* the terminal and the screen writer
    disp,       \* history: what the last step of the main loop dispatched
    paged       \* history: the PageUp/PageDown call the last step made

promptVars == <<p, events, main, inp, tty, disp>>
vars == <<list, pop, nRecv, nUpdate, filtered, p, events, main, inp, tty, disp, paged>>

\* ------------------------------------------------------------------ bounds

MaxStream == 3        \* values the producer sends in the list specification
MaxLongStream == 410  \* values the producer sends in the long-stream specification
MaxSize == 2          \* largest visible size tried
NumItems == 3         \* distinct non-nil item values in the list specification
MaxKeys == 2          \* keystrokes (or read errors) the terminal delivers
MaxAliasStream == 203 \* values the producer sends in the aliasing specification

\* ------------------------------------------------------- program constants

NotFound == -1
FlushLimit == 200
EventsCap == 20

Min(a, b) == IF a < b THEN a ELSE b

\* ------------------------------------------------------------------- texts

Texts == << <<"a">>, <<"b">>, <<"a", "b">> >>

\* fmt.Sprint(item), as interfaceSource hands it to the matcher
TextOf(k) == Texts[((k - 1) % Len(Texts)) + 1]

Queries == { <<>>, <<" ">>, <<"a">>, <<"b">>, <<"a", "b">>, <<" ", "a", " ">> }

RECURSIVE TrimLeft(_)
TrimLeft(s) == IF s # <<>> /\ Head(s) = " " THEN TrimLeft(Tail(s)) ELSE s

RECURSIVE TrimRight(_)
TrimRight(s) ==
    IF s # <<>> /\ s[Len(s)] = " " THEN TrimRight(SubSeq(s, 1, Len(s) - 1)) ELSE s

\* strings.Trim(term, " ")
Trim(s) == TrimRight(TrimLeft(s))

\* --------------------------------------------------------- fuzzy.FindFrom
\* The matcher is the library github.com/sahilm/fuzzy.  A text matches a
\* pattern when the pattern is an ordered subsequence of it; MatchedIndexes
\* are the 0-based offsets of the matched characters (for the texts used
\* here no character repeats, so the offsets are unique); results are stably
\* sorted by descending score.

NoMatch == << -1 >>

RECURSIVE Walk(_, _, _, _)
Walk(q, t, j, acc) ==
    IF q = <<>> THEN acc
    ELSE IF j > Len(t) THEN NoMatch
    ELSE IF t[j] = Head(q) THEN Walk(Tail(q), t, j + 1, Append(acc, j - 1))
    ELSE Walk(q, t, j + 1, acc)

MatchedIndexes(q, t) == Walk(q, t, 1, <<>>)

IsMatch(q, t) == MatchedIndexes(q, t) # NoMatch

\* the library's score: first-character bonus, adjacency bonus, penalty for
\* unmatched leading characters (at most 15), one point off per unmatched
\* character
Score(q, t) ==
    LET idx == MatchedIndexes(q, t)
        adj == Cardinality({i \in 2..Len(idx) : idx[i] = idx[i - 1] + 1})
    IN  (IF idx[1] = 0 THEN 10 ELSE 0) + 5 * adj
        - Min(15, 5 * idx[1]) - (Len(t) - Len(idx))

\* indexes (1-based) of the entries of its that match q, in index order
MatchingIdx(q, its) ==
    LET F[i \in 0..Len(its)] ==
            IF i = 0 THEN <<>>
            ELSE IF IsMatch(q, TextOf(its[i])) THEN Append(F[i - 1], i) ELSE F[i - 1]
    IN  F[Len(its)]

\* sort.Stable by descending score
RECURSIVE StableSort(_, _, _)
StableSort(q, its, idxs) ==
    IF idxs = <<>> THEN <<>>
    ELSE LET sc(i) == Score(q, TextOf(its[i]))
             best == CHOOSE b \in {sc(idxs[n]) : n \in 1..Len(idxs)} :
                        \A n \in 1..Len(idxs) : sc(idxs[n]) <= b
             top(i) == sc(i) = best
             rest(i) == sc(i) # best
         IN  SelectSeq(idxs, top) \o StableSort(q, its, SelectSeq(idxs, rest))

\* fuzzy.FindFrom(term, interfaceSource(l.items)): the r.Index values, ranked
FindFrom(q, its) == StableSort(q, its, MatchingIdx(q, its))

\* ----------------------------------------------------------------- slices

ItemsSeq(l) == SubSeq(l.items.arr, 1, l.items.len)

\* the slice a scope header h denotes, given the items' backing array
HeaderSeq(h, arr) == IF h.shared THEN SubSeq(arr, 1, h.len) ELSE h.own

ScopeSeq(l) == HeaderSeq(l.scope, l.items.arr)

Zeros(n) == [i \in 1..n |-> 0]

\* runtime growslice for a one-element append to a full slice
NewCap(c) == IF c = 0 THEN 1 ELSE 2 * c

\* l.scope = l.items : scope takes the items' header
AliasItems(l) == [shared |-> TRUE, len |-> l.items.len, own |-> <<>>]

OwnSlice(s) == [shared |-> FALSE, len |-> Len(s), own |-> s]

\* ------------------------------------------------------------ the list API
\* Each method is a function from the list before the call to the list after.

\* the list NewAsyncList returns, before the goroutine has run
NewAsyncList(sz) ==
    [items   |-> [arr |-> <<>>, len |-> 0],
     scope   |-> [shared |-> TRUE, len |-> 0, own |-> <<>>],
     matches |-> [x \in {} |-> <<>>],
     cursor  |-> 0,
     size    |-> sz,
     start   |-> 0,
     find    |-> <<>>]

Prev(l) ==
    LET c == IF l.cursor > 0 THEN l.cursor - 1 ELSE l.cursor
    IN  [l EXCEPT !.cursor = c,
                  !.start = IF l.start > c THEN c ELSE l.start]

\* l.search(term), term already trimmed
search(l, term) ==
    IF Len(term) = 0
    THEN [l EXCEPT !.scope = AliasItems(l)]
    ELSE LET its == ItemsSeq(l)
             results == FindFrom(term, its)
             found == {its[results[n]] : n \in 1..Len(results)}
         IN  [l EXCEPT
                !.matches = [x \in found |-> MatchedIndexes(term, TextOf(x))],
                !.scope = OwnSlice([n \in 1..Len(results) |-> its[results[n]]])]

Search(l, q) ==
    LET term == Trim(q)
    IN  search([l EXCEPT !.cursor = 0, !.start = 0, !.find = term], term)

CancelSearch(l) ==
    [l EXCEPT !.cursor = 0, !.start = 0, !.scope = AliasItems(l)]

SetStart(l, i0) ==
    LET i == IF i0 < 0 THEN 0 ELSE i0
    IN  [l EXCEPT !.start = IF i > l.cursor THEN l.cursor ELSE i]

SetCursor(l, i0) ==
    LET max == l.scope.len - 1
        i1 == IF i0 >= max THEN max ELSE i0
        i == IF i1 < 0 THEN 0 ELSE i1
    IN  [l EXCEPT !.cursor = i,
                  !.start = IF l.start > i THEN i
                            ELSE IF l.start + l.size <= i THEN i - l.size + 1
                            ELSE l.start]

Next(l) ==
    LET max == l.scope.len - 1
        c == IF l.cursor < max THEN l.cursor + 1 ELSE l.cursor
    IN  [l EXCEPT !.cursor = c,
                  !.start = IF l.start + l.size <= c THEN c - l.size + 1
                            ELSE l.start]

\* mutant: the cursor moved only when it is below the new window
PageUpKeepsVisible(l) ==
    LET s0 == l.start - l.size
        st == IF s0 < 0 THEN 0 ELSE s0
    IN  [l EXCEPT !.start = st,
                  !.cursor = IF st + l.size <= l.cursor THEN st ELSE l.cursor]

PageUp(l) ==
    LET s0 == l.start - l.size
        st == IF s0 < 0 THEN 0 ELSE s0
    IN  [l EXCEPT !.start = st,
                  !.cursor = IF st < l.cursor THEN st ELSE l.cursor]

\* mutant: `else` in place of `else if cursor > l.cursor`
PageDownTracksStart(l) ==
    LET s0 == l.start + l.size
        max == l.scope.len - l.size
        st == IF l.scope.len < l.size THEN 0
              ELSE IF s0 > max THEN max
              ELSE s0
    IN  [l EXCEPT !.start = st,
                  !.cursor = IF st = l.cursor THEN l.scope.len - 1 ELSE st]

PageDown(l) ==
    LET s0 == l.start + l.size
        max == l.scope.len - l.size
        st == IF l.scope.len < l.size THEN 0
              ELSE IF s0 > max THEN max
              ELSE s0
    IN  [l EXCEPT !.start = st,
                  !.cursor = IF st = l.cursor THEN l.scope.len - 1
                             ELSE IF st > l.cursor THEN st
                             ELSE l.cursor]

CanPageDown(l) == l.start + l.size < l.scope.len

CanPageUp(l) == l.start > 0

\* Index(): [panic, index]; index is an index into Items (0-based) or
\* NotFound; panic is the run-time panic of l.scope[l.cursor] out of range
Index(l) ==
    IF l.scope.len <= 0 THEN [panic |-> FALSE, index |-> 0]
    ELSE IF l.cursor < 0 \/ l.cursor >= l.scope.len
    THEN [panic |-> TRUE, index |-> NotFound]
    ELSE LET selected == ScopeSeq(l)[l.cursor + 1]
             its == ItemsSeq(l)
             hits == {i \in 1..Len(its) : its[i] = selected}
         IN  [panic |-> FALSE,
              index |-> IF hits = {} THEN NotFound
                        ELSE (CHOOSE i \in hits : \A j \in hits : i <= j) - 1]

\* Items(): [panic, window, active]; panic is the run-time panic of
\* l.scope[i] with i < 0
Items(l) ==
    LET max == l.scope.len
        e0 == l.start + l.size
        end == IF e0 > max THEN max ELSE e0
    IN  IF l.start < end /\ l.start < 0
        THEN [panic |-> TRUE, window |-> <<>>, active |-> NotFound]
        ELSE [panic |-> FALSE,
              window |-> SubSeq(ScopeSeq(l), l.start + 1, end),
              active |-> IF l.cursor >= l.start /\ l.cursor < end
                         THEN l.cursor - l.start ELSE NotFound]

\* paged is a history variable: the page call made by the step that led to
\* the current state, with Cursor and Start as that call found them, or NoPage
\* when that step made none.
NoPage == [op |-> "none", cursor |-> 0, start |-> 0]

Paging(op, l) == [op |-> op, cursor |-> l.cursor, start |-> l.start]

NoPaging == paged' = NoPage

\* ------------------------------------------------ the population goroutine
\* pop.pc is the goroutine's position:
\*   "recv"   at `for val := range items`, waiting for the producer
\*   "notify" blocked in `list.update <- struct{}{}` inside the loop
\*   "read"   about to evaluate list.scope in `append(list.scope, val)`
\*   "write"  about to assign the appended slice to list.scope
\*   "final"  blocked in `list.update <- struct{}{}` after the loop
\*   "done"   returned
\* The goroutine takes no lock, so each of its accesses to the list is a step
\* of its own, interleaved with the methods the caller runs.

NoHeader == [shared |-> FALSE, len |-> 0, own |-> <<>>]

PopInit == [pc |-> "recv", flush |-> 0, done |-> FALSE, val |-> 0, tmp |-> NoHeader]

\* l.items = append(l.items, item), and what it does to a scope that shares
\* the backing array: a reallocation leaves scope alone on the old array
AppendItems(l, v) ==
    IF l.items.len < Len(l.items.arr)
    THEN [l EXCEPT !.items.arr[l.items.len + 1] = v,
                   !.items.len = l.items.len + 1]
    ELSE LET cap == NewCap(Len(l.items.arr))
         IN  [l EXCEPT
                !.items = [arr |-> ItemsSeq(l) \o <<v>> \o Zeros(cap - l.items.len - 1),
                           len |-> l.items.len + 1],
                !.scope = IF l.scope.shared THEN OwnSlice(ScopeSeq(l)) ELSE l.scope]

addItem(l, item) == IF item # 0 THEN AppendItems(l, item) ELSE l

\* list.scope = append(h, val) for the header h read earlier
AppendScope(l, h, v) ==
    IF h.shared /\ h.len < Len(l.items.arr)
    THEN [l EXCEPT !.items.arr[h.len + 1] = v,
                   !.scope = [shared |-> TRUE, len |-> h.len + 1, own |-> <<>>]]
    ELSE [l EXCEPT !.scope = OwnSlice(HeaderSeq(h, l.items.arr) \o <<v>>)]

\* mutant: the test taken as `flush >= 200`
FlushDueAtLimit(flush) == flush >= FlushLimit

\* `if flush > 200`
FlushDue(flush) == flush > FlushLimit

\* `if flush < size && !done`
TakesScope(flush, sz, done) == flush < sz /\ ~done

\* the goroutine's position after the flush test: into the scope append, or
\* past it (flush++) and back to the head of the loop
AfterFlush(g, sz) ==
    IF TakesScope(g.flush, sz, g.done)
    THEN [g EXCEPT !.pc = "read"]
    ELSE [g EXCEPT !.pc = "recv", !.flush = g.flush + 1, !.val = 0]

\* the producer sends v; list.addItem(val); the flush test
PopRecv(v) ==
    /\ pop.pc = "recv"
    /\ list' = addItem(list, v)
    /\ nRecv' = nRecv + 1
    /\ pop' = IF FlushDue(pop.flush)
              THEN [pop EXCEPT !.pc = "notify", !.val = v]
              ELSE AfterFlush([pop EXCEPT !.val = v], list.size)
    /\ UNCHANGED <<nUpdate, filtered, promptVars>>
    /\ NoPaging

\* the producer closes the channel: the range loop ends
PopClose ==
    /\ pop.pc = "recv"
    /\ pop' = [pop EXCEPT !.pc = "final"]
    /\ UNCHANGED <<list, nRecv, nUpdate, filtered, promptVars>>
    /\ NoPaging

\* a receiver takes the value the goroutine is sending on l.Update()
RecvUpdate ==
    /\ pop.pc \in {"notify", "final"}
    /\ nUpdate' = nUpdate + 1
    /\ pop' = IF pop.pc = "final"
              THEN [pop EXCEPT !.pc = "done"]
              ELSE AfterFlush([pop EXCEPT !.flush = 0], list.size)
    /\ UNCHANGED <<list, nRecv, filtered, promptVars>>
    /\ NoPaging

PopReadScope ==
    /\ pop.pc = "read"
    /\ pop' = [pop EXCEPT !.pc = "write", !.tmp = list.scope]
    /\ UNCHANGED <<list, nRecv, nUpdate, filtered, promptVars>>
    /\ NoPaging

PopWriteScope ==
    /\ pop.pc = "write"
    /\ list' = AppendScope(list, pop.tmp, pop.val)
    /\ pop' = [pc |-> "recv", flush |-> pop.flush + 1,
               done |-> IF pop.flush = list.size THEN TRUE ELSE pop.done,
               val |-> 0, tmp |-> NoHeader]
    /\ UNCHANGED <<nRecv, nUpdate, filtered, promptVars>>
    /\ NoPaging

\* ------------------------------------------------- calls made by the caller
\* filtered is a history variable: TRUE exactly when the last Search or
\* CancelSearch call was a Search whose trimmed query was not empty.

Positions == -1 .. MaxStream + 1

CallPrev ==
    /\ list' = Prev(list)
    /\ UNCHANGED <<filtered, pop, nRecv, nUpdate, promptVars>>
    /\ NoPaging

CallNext ==
    /\ list' = Next(list)
    /\ UNCHANGED <<filtered, pop, nRecv, nUpdate, promptVars>>
    /\ NoPaging

CallPageUp ==
    /\ list' = PageUp(list)
    /\ paged' = Paging("PageUp", list)
    /\ UNCHANGED <<filtered, pop, nRecv, nUpdate, promptVars>>

CallPageDown ==
    /\ list' = PageDown(list)
    /\ paged' = Paging("PageDown", list)
    /\ UNCHANGED <<filtered, pop, nRecv, nUpdate, promptVars>>

CallSetCursor ==
    \E i \in Positions :
        /\ list' = SetCursor(list, i)
        /\ UNCHANGED <<filtered, pop, nRecv, nUpdate, promptVars>>
        /\ NoPaging

CallSetStart ==
    \E i \in Positions :
        /\ list' = SetStart(list, i)
        /\ UNCHANGED <<filtered, pop, nRecv, nUpdate, promptVars>>
        /\ NoPaging

CallSearch ==
    \E q \in Queries :
        /\ list' = Search(list, q)
        /\ filtered' = (Trim(q) # <<>>)
        /\ UNCHANGED <<pop, nRecv, nUpdate, promptVars>>
        /\ NoPaging

CallCancelSearch ==
    /\ list' = CancelSearch(list)
    /\ filtered' = FALSE
    /\ UNCHANGED <<pop, nRecv, nUpdate, promptVars>>
    /\ NoPaging

\* -------------------------------------------------------------- the Prompt
\* A keyEvent is [ch, err]; err is "nil" or the error ReadRune returned.
\* A hook supplied by the embedding caller (selection handler, key-binding
\* handler) is code outside the engine: a call of it ends in one of Outcomes,
\* "nil", an error, or "stop" (it called p.Stop() and then returned nil).

Keys == {"Enter", "CtrlC", "Up", "Down", "Left", "Right", "/", "?", "a", "x",
         "Backspace"}

Errors == {"e1", "e2"}

Outcomes == {"nil", "stop"} \cup Errors

ZeroEvent == [ch |-> "NUL", err |-> "nil"]

\* the items of the list the prompt is created with
PromptItems == <<1, 2, 3>>

\* prompt.NewList(items, size): Cursor = 0, Start = 0, Scope = Items.  The
\* Prompt holds a *List, whose methods are those of AsyncList without the
\* population goroutine.
NewList(its, sz) ==
    [NewAsyncList(sz) EXCEPT
        !.items = [arr |-> its, len |-> Len(its)],
        !.scope = [shared |-> TRUE, len |-> Len(its), own |-> <<>>]]

\* Create(label, opts, list, fs...): the fields the loop reads.  keyHandler
\* is "onKey" (p.keyHandler = p.onKey) unless WithKeyHandler replaced it by
\* the caller's "override"; selectionHandler likewise is "onSelect" or the
\* caller's "custom".
Create(sel, kh, startInSearch) ==
    [inputMode |-> FALSE, helpMode |-> FALSE, input |-> <<>>, hold |-> FALSE,
     exitMsg |-> 0, vim |-> TRUE,
     keyHandler |-> kh,
     selectionHandler |-> sel,
     keyBindings |-> {"x"},
     startInSearch |-> startInSearch]

\* the hook settings tried, <<selection handler, key handler>>: the
\* defaults, and both replaced as StatusPrompt does
Hooks == {<<"onSelect", "onKey">>, <<"custom", "override">>}

MainInit == [pc |-> "start", err |-> "nil", result |-> "none", raised |-> "nil",
             ev |-> ZeroEvent]

Confirm == {"Enter", "NewLine"}

Interrupt == {"CtrlC", "CtrlD"}

\* the case of mainloop's switch a key falls in
KindOf(key) ==
    IF key \in Interrupt THEN "interrupt"
    ELSE IF key \in Confirm THEN "confirm"
    ELSE "default"

\* disp is a history variable, the dispatch of an event that the last step
\* made: the kind of key ("none" when that step dispatched no event), the
\* hook it called ("none", "selection", "binding" or "override") and the item
\* it passed, whether the hook replaced the list (reloaded), and whether the
\* dispatch has ended in p.render().
NoDispatch == [kind |-> "none", called |-> "none", item |-> 0,
               reloaded |-> FALSE, rendered |-> FALSE]

Rendered == [NoDispatch EXCEPT !.rendered = TRUE]

Quiet == paged' = NoPage /\ disp' = NoDispatch

InpInit == [pc |-> "idle", ev |-> ZeroEvent, nRead |-> 0]

TtyInit == [raw |-> FALSE, reset |-> FALSE, cleared |-> FALSE]

\* the list part of a key's effect: w is [p, list, filtered, call, panic, paged]
Nav(w, l2) == [w EXCEPT !.list = l2]

NavPageDown(w) ==
    [w EXCEPT !.list = PageDown(w.list), !.paged = Paging("PageDown", w.list)]

NavPageUp(w) ==
    [w EXCEPT !.list = PageUp(w.list), !.paged = Paging("PageUp", w.list)]

\* the SearchInput branch of onKey: edit p.input, then p.list.Search(p.input)
EditInput(w, key) ==
    LET in0 == w.p.input
        in1 == IF key = "Backspace"
               THEN (IF Len(in0) > 0 THEN SubSeq(in0, 1, Len(in0) - 1) ELSE in0)
               ELSE IF key = "CtrlU" THEN <<>>
               ELSE Append(in0, key)
    IN  [w EXCEPT !.p.input = in1,
                  !.list = Search(w.list, in1),
                  !.filtered = (Trim(in1) # <<>>)]

\* p.onKey(key) up to the call of a key binding's handler: call is TRUE when
\* a binding's handler is to be called with the active item
onKey(w, key) ==
    IF w.p.helpMode THEN [w EXCEPT !.p.helpMode = FALSE]
    ELSE IF key = "Up" THEN Nav(w, Prev(w.list))
    ELSE IF key = "Down" THEN Nav(w, Next(w.list))
    ELSE IF key = "Left" THEN NavPageDown(w)
    ELSE IF key = "Right" THEN NavPageUp(w)
    ELSE IF key = "/" THEN [w EXCEPT !.p.inputMode = ~w.p.inputMode]
    ELSE IF w.p.inputMode THEN EditInput(w, key)
    ELSE IF key = "?" THEN [w EXCEPT !.p.helpMode = ~w.p.helpMode]
    ELSE IF w.p.vim /\ key = "k" THEN Nav(w, Prev(w.list))
    ELSE IF w.p.vim /\ key = "j" THEN Nav(w, Next(w.list))
    ELSE IF w.p.vim /\ key = "h" THEN NavPageDown(w)
    ELSE IF w.p.vim /\ key = "l" THEN NavPageUp(w)
    ELSE IF Items(w.list).panic THEN [w EXCEPT !.panic = TRUE]
    ELSE IF Items(w.list).active = NotFound THEN w
    ELSE [w EXCEPT !.call = (key \in w.p.keyBindings)]

\* mutant: the handler's error assigned to a shadowing err, so the outer err
\* stays nil
HandlerFailedShadowed(m, e) == [m EXCEPT !.pc = "break", !.raised = e]

\* what mainloop returns when a handler returned e: the outer err
HandlerFailed(m, e) == [m EXCEPT !.pc = "break", !.err = e, !.raised = e]

\* `if err := ev.err; err != nil { return err }`
ReadFailed(m, e) == [m EXCEPT !.pc = "ret", !.err = e]

\* mutant: the handler given the first visible item
SelectedTop(r) == r.window[1]

\* items[idx] for the window and index Items() returned
Selected(r) == r.window[r.active + 1]

\* p.render() draws the help text, or else the window p.list.Items() returns
RenderPanics(pp, l) == ~pp.helpMode /\ Items(l).panic

\* p.State()
State(pp, l) ==
    [List |-> l, SearchMode |-> pp.inputMode, SearchStr |-> pp.input,
     Cursor |-> l.cursor, Scroll |-> l.start, ListSize |-> l.size]

\* p.SetState(state)
SetState(w, state) ==
    [w EXCEPT !.list = SetStart(SetCursor(state.List, state.Cursor), state.Scroll),
              !.p.inputMode = state.SearchMode,
              !.p.input = state.SearchStr]

\* the entities a reload finds: not empty
NewStatus == {<<2>>, <<3, 1>>}

\* reloadStatus() where the new status has entities: snapshot, new list,
\* SetState.  No Search or CancelSearch call has been made on the new list.
reloadStatus(w, its) ==
    LET state == State(w.p, w.list)
        w2 == SetState(w, [state EXCEPT !.List = NewList(its, state.ListSize)])
    IN  [w2 EXCEPT !.filtered = FALSE]

\* the rest of the event case once the hook call (if any) ended in out: d is
\* the dispatch so far
Finish(w, d, out) ==
    LET m == [main EXCEPT !.ev = ZeroEvent]
    IN  /\ list' = w.list
        /\ filtered' = w.filtered
        /\ paged' = w.paged
        /\ IF out \in Errors
           THEN main' = HandlerFailed(m, out) /\ p' = w.p /\ disp' = d
           ELSE IF out = "stop"
           THEN main' = [m EXCEPT !.pc = "stopping"] /\ p' = w.p /\ disp' = d
           ELSE IF RenderPanics(w.p, w.list)
           THEN main' = [m EXCEPT !.pc = "panic"] /\ p' = w.p /\ disp' = d
           ELSE /\ main' = [m EXCEPT !.pc = "select"]
                /\ p' = [w.p EXCEPT !.hold = FALSE]
                /\ disp' = [d EXCEPT !.rendered = TRUE]

\* a call of a hook the embedding caller supplied: it returns nil or an
\* error, or calls p.Stop(), or reloads the list as reloadStatus does
HookCall(w, d) ==
    \/ \E out \in Outcomes : Finish(w, d, out)
    \/ \E its \in NewStatus :
          Finish(reloadStatus(w, its), [d EXCEPT !.reloaded = TRUE], "nil")

\* Run up to the first select of mainloop, which starts with p.render()
RunStart ==
    /\ main.pc = "start"
    /\ \/ /\ main' = [main EXCEPT !.pc = "select"]
          /\ tty' = [tty EXCEPT !.raw = TRUE]
          /\ p' = [p EXCEPT !.inputMode = p.startInSearch]
          /\ inp' = [inp EXCEPT !.pc = "select"]
       \/ /\ main' = [main EXCEPT !.pc = "returned", !.err = "init", !.result = "init"]
          /\ UNCHANGED <<tty, p, inp>>
    /\ Quiet
    /\ UNCHANGED <<list, filtered, pop, nRecv, nUpdate, events>>

\* case ev := <-p.events: p.hold = true, and the test of ev.err
MainEvent ==
    /\ main.pc = "select"
    /\ events.q # <<>> \/ events.closed
    /\ LET ev == IF events.q # <<>> THEN Head(events.q) ELSE ZeroEvent
       IN  /\ events' = [events EXCEPT !.q = IF events.q # <<>> THEN Tail(events.q)
                                             ELSE events.q]
           /\ main' = IF ev.err # "nil" THEN ReadFailed(main, ev.err)
                      ELSE [main EXCEPT !.pc = "dispatch", !.ev = ev]
    /\ p' = [p EXCEPT !.hold = TRUE]
    /\ Quiet
    /\ UNCHANGED <<list, filtered, pop, nRecv, nUpdate, inp, tty>>

\* `switch r := ev.ch; r`, then p.render() and p.hold = false
MainDispatch ==
    /\ main.pc = "dispatch"
    /\ LET key == main.ev.ch
           w0 == [p |-> p, list |-> list, filtered |-> filtered,
                  call |-> FALSE, panic |-> FALSE, paged |-> NoPage]
           d0 == [NoDispatch EXCEPT !.kind = KindOf(key)]
           leave(pc) == /\ main' = [main EXCEPT !.pc = pc, !.ev = ZeroEvent]
                        /\ disp' = d0
                        /\ paged' = NoPage
                        /\ UNCHANGED <<p, list, filtered>>
       IN  IF key \in Interrupt THEN leave("break")
           ELSE IF key \in Confirm
           THEN LET r == Items(list)
                    d == [d0 EXCEPT !.called = "selection", !.item = Selected(r)]
                IN  IF r.panic THEN leave("panic")
                    ELSE IF r.active = NotFound THEN Finish(w0, d0, "nil")
                    ELSE IF p.selectionHandler = "onSelect"
                    THEN Finish([w0 EXCEPT !.p.exitMsg = Selected(r)], d, "stop")
                    ELSE HookCall(w0, d)
           ELSE LET w == onKey(w0, key)
                    d == [d0 EXCEPT !.called = "binding",
                                    !.item = Selected(Items(w.list))]
                IN  IF w.panic THEN leave("panic")
                    ELSE IF w.call THEN HookCall(w, d)
                    ELSE Finish(w, d0, "nil")
    /\ UNCHANGED <<pop, nRecv, nUpdate, events, inp, tty>>

\* the send of p.Stop() is taken by spawnEvents; the handler returns nil,
\* the loop redraws and clears hold
MainStopped ==
    /\ main.pc = "stopping"
    /\ inp.pc = "select"
    /\ inp' = [inp EXCEPT !.pc = "sendQuit"]
    /\ IF RenderPanics(p, list)
       THEN main' = [main EXCEPT !.pc = "panic"] /\ disp' = NoDispatch /\ p' = p
       ELSE /\ main' = [main EXCEPT !.pc = "select"]
            /\ disp' = Rendered
            /\ p' = [p EXCEPT !.hold = FALSE]
    /\ paged' = NoPage
    /\ UNCHANGED <<list, filtered, pop, nRecv, nUpdate, events, tty>>

\* case <-p.quit: break mainloop
MainQuit ==
    /\ main.pc = "select"
    /\ inp.pc = "sendQuit"
    /\ main' = [main EXCEPT !.pc = "break"]
    /\ inp' = [inp EXCEPT !.pc = "close"]
    /\ Quiet
    /\ UNCHANGED <<list, filtered, pop, nRecv, nUpdate, events, p, tty>>

\* case <-sigwinch: p.render()
MainResize ==
    /\ main.pc = "select"
    /\ main' = IF RenderPanics(p, list) THEN [main EXCEPT !.pc = "panic"] ELSE main
    /\ Quiet
    /\ UNCHANGED <<list, filtered, pop, nRecv, nUpdate, events, p, inp, tty>>

\* after the loop: p.writer.Reset(); p.writer.ClearScreen(); return err
MainCleanup ==
    /\ main.pc = "break"
    /\ tty' = [tty EXCEPT !.reset = TRUE, !.cleared = TRUE]
    /\ main' = [main EXCEPT !.pc = "ret"]
    /\ Quiet
    /\ UNCHANGED <<list, filtered, pop, nRecv, nUpdate, events, p, inp>>

\* Run returns what mainloop returned; the deferred term.Close() runs
RunReturn ==
    /\ main.pc = "ret"
    /\ main' = [main EXCEPT !.pc = "returned", !.result = main.err]
    /\ tty' = [tty EXCEPT !.raw = FALSE]
    /\ Quiet
    /\ UNCHANGED <<list, filtered, pop, nRecv, nUpdate, events, p, inp>>

\* spawnEvents, default case: sleep, test p.hold, go into ReadRune
InPoll ==
    /\ inp.pc = "select"
    /\ main.pc # "stopping"
    /\ ~p.hold
    /\ inp' = [inp EXCEPT !.pc = "read"]
    /\ Quiet
    /\ UNCHANGED <<list, filtered, pop, nRecv, nUpdate, events, p, main, tty>>

\* p.reader.ReadRune() returns a key or an error
InRead ==
    /\ inp.pc = "read"
    /\ inp.nRead < MaxKeys
    /\ \E ev \in [ch : Keys, err : {"nil"}] \cup {[ch |-> "NUL", err |-> "eof"]} :
          inp' = [inp EXCEPT !.pc = "send", !.ev = ev, !.nRead = inp.nRead + 1]
    /\ Quiet
    /\ UNCHANGED <<list, filtered, pop, nRecv, nUpdate, events, p, main, tty>>

\* p.events <- keyEvent{ch: r, err: err}
InSend ==
    /\ inp.pc = "send"
    /\ IF events.closed
       THEN inp' = [inp EXCEPT !.pc = "panic"] /\ UNCHANGED events
       ELSE /\ Len(events.q) < EventsCap
            /\ events' = [events EXCEPT !.q = Append(events.q, inp.ev)]
            /\ inp' = [inp EXCEPT !.pc = "select", !.ev = ZeroEvent]
    /\ Quiet
    /\ UNCHANGED <<list, filtered, pop, nRecv, nUpdate, p, main, tty>>

\* close(p.events); break
InClose ==
    /\ inp.pc = "close"
    /\ events' = [events EXCEPT !.closed = TRUE]
    /\ inp' = [inp EXCEPT !.pc = "select"]
    /\ Quiet
    /\ UNCHANGED <<list, filtered, pop, nRecv, nUpdate, p, main, tty>>

\* --------------------------------------------------------- specifications

\* the prompt before Run, as the list specifications leave it
PromptIdle ==
    /\ p = Create("onSelect", "onKey", FALSE)
    /\ events = [q |-> <<>>, closed |-> FALSE]
    /\ main = MainInit
    /\ inp = InpInit
    /\ tty = TtyInit
    /\ disp = NoDispatch

\* a stream list right after NewAsyncList, its goroutine at the loop head
Init ==
    /\ \E sz \in 1..MaxSize : list = NewAsyncList(sz)
    /\ pop = PopInit
    /\ nRecv = 0
    /\ nUpdate = 0
    /\ filtered = FALSE
    /\ paged = NoPage
    /\ PromptIdle

\* the stream list under every interleaving of its goroutine with the
\* caller's method calls
ListStep ==
    \/ \E v \in 0..NumItems : nRecv < MaxStream /\ PopRecv(v)
    \/ PopClose
    \/ RecvUpdate
    \/ PopReadScope
    \/ PopWriteScope
    \/ CallPrev
    \/ CallNext
    \/ CallPageUp
    \/ CallPageDown
    \/ CallSetCursor
    \/ CallSetStart
    \/ CallSearch
    \/ CallCancelSearch

Spec == Init /\ [][ListStep]_vars

\* the goroutine alone, draining a long stream of distinct items 1, 2, 3, ...
LongStep ==
    \/ nRecv < MaxLongStream /\ PopRecv(nRecv + 1)
    \/ PopClose
    \/ RecvUpdate
    \/ PopReadScope
    \/ PopWriteScope

SpecLong == Init /\ [][LongStep]_vars

\* the goroutine draining distinct items 1, 2, 3, ... past its first
\* notification, while the caller calls CancelSearch at any moment
AliasStep ==
    \/ nRecv < MaxAliasStream /\ PopRecv(nRecv + 1)
    \/ PopClose
    \/ RecvUpdate
    \/ PopReadScope
    \/ PopWriteScope
    \/ CallCancelSearch

SpecAlias == Init /\ [][AliasStep]_vars

\* a stream of distinct items 1, 2, 3, ... drained and closed before the
\* caller's first call: the list's methods one after another, with no
\* goroutine running beside them
Drained == pop.pc = "done"

NavStep ==
    \/ nRecv < MaxStream /\ PopRecv(nRecv + 1)
    \/ PopClose
    \/ RecvUpdate
    \/ PopReadScope
    \/ PopWriteScope
    \/ Drained /\ CallPrev
    \/ Drained /\ CallNext
    \/ Drained /\ CallPageUp
    \/ Drained /\ CallPageDown
    \/ Drained /\ CallSetCursor
    \/ Drained /\ CallSetStart
    \/ Drained /\ CallSearch
    \/ Drained /\ CallCancelSearch

SpecNav == Init /\ [][NavStep]_vars

\* a prompt created over a fixed list, before Run
PromptInit ==
    /\ \E sz \in 1..MaxSize : list = NewList(PromptItems, sz)
    /\ pop = [PopInit EXCEPT !.pc = "done"]
    /\ nRecv = 0
    /\ nUpdate = 0
    /\ filtered = FALSE
    /\ paged = NoPage
    /\ \E h \in Hooks, sis \in BOOLEAN : p = Create(h[1], h[2], sis)
    /\ events = [q |-> <<>>, closed |-> FALSE]
    /\ main = MainInit
    /\ inp = InpInit
    /\ tty = TtyInit
    /\ disp = NoDispatch

PromptStep ==
    \/ RunStart
    \/ MainEvent
    \/ MainDispatch
    \/ MainStopped
    \/ MainQuit
    \/ MainResize
    \/ MainCleanup
    \/ RunReturn
    \/ InPoll
    \/ InRead
    \/ InSend
    \/ InClose

SpecPrompt == PromptInit /\ [][PromptStep]_vars

\* ---------------------------------------------------------------- claims

\* C1: 0 <= Start <= Cursor <= len(Scope)-1 after construction and after
\* every call, and Start = Cursor = 0 whenever Scope is empty.
C1_PositionInRange ==
    IF list.scope.len = 0
    THEN list.start = 0 /\ list.cursor = 0
    ELSE 0 <= list.start /\ list.start <= list.cursor
         /\ list.cursor <= list.scope.len - 1

\* C2: the active item is inside the visible window: Cursor - Start is
\* less than VisibleSize after construction and after every call.
C2_CursorInWindow == list.cursor - list.start < list.size

\* C3: Items() returns at most VisibleSize items, reports NotFound exactly
\* when Scope is empty, and otherwise reports the cursor's place in the window.
C3_ItemsWindow ==
    LET r == Items(list)
    IN  /\ ~r.panic
        /\ Len(r.window) <= list.size
        /\ (r.active = NotFound) <=> (list.scope.len = 0)
        /\ list.scope.len > 0 => r.active = list.cursor - list.start

\* C4: while a filter is on (after Search with a non-blank query, until the
\* next Search or CancelSearch), every item of Scope matches the query and
\* has a MatchIndex entry, whatever the population goroutine does meanwhile.
C4_ScopeMatchesQuery ==
    filtered =>
        \A n \in 1..list.scope.len :
            LET x == ScopeSeq(list)[n]
            IN  /\ x # 0
                /\ IsMatch(list.find, TextOf(x))
                /\ x \in DOMAIN list.matches

\* C5: the call that leaves a filter (CancelSearch, or Search with a blank
\* query, after a Search with a non-blank query) leaves Scope equal to Items
\* and MatchIndex empty.
C5_LeavingFilterRestores ==
    [][(filtered /\ ~filtered') =>
          /\ ScopeSeq(list') = ItemsSeq(list')
          /\ DOMAIN list'.matches = {}]_vars

\* C6: Index() is NotFound when Scope is empty, and otherwise the index
\* within Items of the item at Cursor in Scope.
C6_IndexOfCursor ==
    LET r == Index(list)
    IN  /\ ~r.panic
        /\ IF list.scope.len = 0
           THEN r.index = NotFound
           ELSE /\ r.index \in 0 .. list.items.len - 1
                /\ ItemsSeq(list)[r.index + 1] = ScopeSeq(list)[list.cursor + 1]

\* C7 (as amended): the goroutine sends one progress notification when it
\* has drained the 202nd, 403rd, 604th, ... value (FlushLimit + 2 first, then
\* every FlushLimit + 1) and exactly one more when the stream closes: with N
\* values drained, (N - 1) \div 201 sends in the loop (none for N = 0).
C7_NotificationCount ==
    LET due == IF nRecv = 0 THEN 0 ELSE (nRecv - 1) \div (FlushLimit + 1)
    IN  /\ pop.pc = "notify" => nUpdate = due - 1
        /\ pop.pc \in {"recv", "read", "write", "final"} => nUpdate = due
        /\ pop.pc = "done" => nUpdate = due + 1

\* C7 witness: a closed stream of at least 403 values, three notifications
C7_Witness ==
    /\ pop.pc = "done"
    /\ nRecv >= 2 * (FlushLimit + 1) + 1
    /\ nUpdate = 3

\* C7 as stated: N values and a close give N \div 200 + 1 notifications.
C7_AsStated == pop.pc = "done" => nUpdate = (nRecv \div FlushLimit) + 1

\* C8: with no Search or CancelSearch call, once VisibleSize values have
\* been drained Scope is the first VisibleSize items of the stream, and
\* stays so while Items grows.
C8_ScopeIsFirstPage ==
    (\/ nRecv > list.size
     \/ nRecv = list.size /\ pop.pc \in {"recv", "final", "done"})
    => ScopeSeq(list) = [i \in 1..list.size |-> i]

\* C9: once a selection handler or a key binding's handler (through onKey)
\* has returned an error, the main loop is past its select for good, and Run
\* returns that same error.
C9_HandlerErrorReturned ==
    main.raised # "nil" =>
        /\ main.pc \in {"break", "ret", "returned"}
        /\ main.err = main.raised
        /\ main.pc = "returned" => main.result = main.raised

\* C9 witness: Run has returned the error a handler raised
C9_Witness ==
    /\ main.pc = "returned"
    /\ main.raised \in Errors
    /\ main.result = main.raised

\* C10: whenever mainloop has returned, the writer was reset and the screen
\* cleared; whenever Run has returned after it, the terminal is restored.
C10_CleanupOnEveryExit ==
    /\ (main.pc = "ret" \/ (main.pc = "returned" /\ main.err # "init"))
           => tty.reset /\ tty.cleared
    /\ main.pc = "returned" => ~tty.raw

\* C18 (as amended): PageDown sets Start to min(Start + VisibleSize,
\* len(Scope) - VisibleSize), or 0 if len(Scope) < VisibleSize; then, if the
\* new Start equals the previous Cursor, Cursor becomes len(Scope) - 1; if the
\* new Start is greater than the previous Cursor, Cursor becomes the new
\* Start; and if it is smaller, Cursor is left where it was.
C18_PageDown ==
    paged.op = "PageDown" =>
        LET st == IF list.scope.len < list.size THEN 0
                  ELSE Min(paged.start + list.size, list.scope.len - list.size)
        IN  /\ list.start = st
            /\ list.cursor = IF st = paged.cursor THEN list.scope.len - 1
                             ELSE IF st > paged.cursor THEN st
                             ELSE paged.cursor

\* C18 witness: a PageDown whose new Start is below the Cursor it found
C18_Witness ==
    /\ paged.op = "PageDown"
    /\ list.start < paged.cursor
    /\ list.cursor = paged.cursor
    /\ list.scope.len >= list.size

\* C18 as stated: in every case but new Start = previous Cursor, Cursor
\* becomes the new Start.
C18_AsStated ==
    paged.op = "PageDown" =>
        LET st == IF list.scope.len < list.size THEN 0
                  ELSE Min(paged.start + list.size, list.scope.len - list.size)
        IN  /\ list.start = st
            /\ list.cursor = IF st = paged.cursor THEN list.scope.len - 1 ELSE st

\* C19 (as amended): PageUp sets Start to max(Start - VisibleSize, 0) and
\* sets Cursor to the new Start whenever the new Start is smaller than
\* Cursor, also when Cursor is still inside the new window; otherwise Cursor
\* is left unchanged.
C19_PageUp ==
    paged.op = "PageUp" =>
        LET st == IF paged.start - list.size > 0 THEN paged.start - list.size ELSE 0
        IN  /\ list.start = st
            /\ list.cursor = IF st < paged.cursor THEN st ELSE paged.cursor

\* C19 witness: a PageUp that moved a Cursor that was inside the new window
C19_Witness ==
    /\ paged.op = "PageUp"
    /\ paged.cursor >= list.start
    /\ paged.cursor < list.start + list.size
    /\ list.cursor # paged.cursor

\* C19 as stated: a Cursor inside the new window [Start, Start + VisibleSize
\* - 1] is left unchanged.
C19_AsStated ==
    paged.op = "PageUp" =>
        LET st == IF paged.start - list.size > 0 THEN paged.start - list.size ELSE 0
        IN  /\ list.start = st
            /\ (paged.cursor >= st /\ paged.cursor < st + list.size)
                   => list.cursor = paged.cursor

\* C11: once a handler has called Stop(), the main loop exits: as long as it
\* has not left its loop, some step of the main loop or of the input task is
\* possible without the arrival of a further keystroke (InRead) or of a
\* resize signal (MainResize).  (A state where none is possible is where a
\* fairly scheduled run stays for ever.)
C11_StopExits ==
    (main.pc = "stopping" \/ (inp.pc = "sendQuit" /\ main.pc \in {"select", "dispatch"}))
        => ENABLED (\/ MainEvent
                    \/ MainDispatch
                    \/ MainStopped
                    \/ MainQuit
                    \/ MainCleanup
                    \/ RunReturn
                    \/ InPoll
                    \/ InSend
                    \/ InClose)

\* C12: with a key-handler override set, a dispatched key that is neither a
\* confirm key nor a hard interrupt is handed to the override.
C12_OverrideGetsKeys ==
    (p.keyHandler = "override" /\ disp.kind = "default") => disp.called = "override"

\* C13: the dispatch of a key in Help mode (the hard interrupt aside) leaves
\* Help mode and does nothing else: no hook is called, and the list, the
\* search mode and the query stay as they were.
C13_HelpSwallowsKey ==
    [][(/\ main.pc = "dispatch"
        /\ main'.pc # "dispatch"
        /\ p.helpMode
        /\ main.ev.ch \notin Interrupt)
       => /\ ~p'.helpMode
          /\ disp'.called = "none"
          /\ list' = list
          /\ p'.inputMode = p.inputMode
          /\ p'.input = p.input
          /\ main'.pc = "select"]_vars

\* C14: the dispatch of a confirm key with no active item calls no handler,
\* raises no error, redraws, clears hold and goes back to the select; with an
\* active item it calls the selection handler with the item at Cursor.
C14_ConfirmDispatch ==
    [][(/\ main.pc = "dispatch"
        /\ main'.pc # "dispatch"
        /\ main.ev.ch \in Confirm)
       => LET r == Items(list)
          IN  /\ ~r.panic
              /\ IF r.active = NotFound
                 THEN /\ disp'.called = "none"
                      /\ main'.err = "nil"
                      /\ main'.raised = "nil"
                      /\ main'.pc = "select"
                      /\ disp'.rendered
                      /\ ~p'.hold
                 ELSE /\ disp'.called = "selection"
                      /\ disp'.item = ScopeSeq(list)[list.cursor + 1]]_vars

\* C14 witness: a confirm key was dispatched while Scope was empty; no
\* handler ran, the screen was redrawn and the loop is back at its select
C14_Witness ==
    /\ disp.kind = "confirm"
    /\ list.scope.len = 0
    /\ disp.called = "none"
    /\ disp.rendered
    /\ ~p.hold
    /\ main.pc = "select"

\* C15: a reload onto a non-empty new list leaves Cursor and Start at the
\* snapshot's values clamped into the new list (invariants 1 and 2 hold),
\* leaves the search mode and the query as they were, and has the query in
\* effect: with a non-blank query, Scope is the search result on the new Items.
C15_ReloadCarriesState ==
    [][disp'.reloaded =>
          LET its == ItemsSeq(list')
              term == Trim(p.input)
              found == FindFrom(term, its)
              c0 == IF list.cursor < 0 THEN 0 ELSE list.cursor
              s0 == IF list.start < 0 THEN 0 ELSE list.start
          IN  /\ list'.cursor = Min(c0, list'.scope.len - 1)
              /\ list'.start = Min(s0, list'.cursor)
              /\ 0 <= list'.start /\ list'.start <= list'.cursor
              /\ list'.cursor <= list'.scope.len - 1
              /\ list'.cursor - list'.start < list'.size
              /\ p'.inputMode = p.inputMode
              /\ p'.input = p.input
              /\ term # <<>> =>
                    ScopeSeq(list') = [n \in 1..Len(found) |-> its[found[n]]]]_vars

\* C16: while the main loop holds input for an event (hold set, the dispatch
\* not yet finished), the input task is neither inside ReadRune nor about to
\* enqueue an event.
C16_HoldSerializes ==
    (p.hold /\ main.pc \in {"dispatch", "stopping"}) => inp.pc \notin {"read", "send"}

\* C17: while a stop signal is pending on p.quit and the main loop is at its
\* select, the loop takes no queued event.
C17_StopFirst ==
    [][(main.pc = "select" /\ inp.pc = "sendQuit") => events'.q = events.q]_vars

\* C20: under every interleaving of the goroutine with the caller's calls,
\* Items is the stream's non-nil items received so far, in producer order:
\* here the items 1, 2, ..., nRecv, each staying at the index it was stored at.
C20_ItemsAppendOnly == ItemsSeq(list) = [i \in 1..nRecv |-> i]

\* C21: once spawnEvents has handled the stop signal and closed p.events,
\* the input task reads no further character (ReadRune returns nothing more
\* to it) and never sends on the closed p.events, the send that panics.
C21_ReaderStopsAfterClose ==
    [][events.closed => (inp'.nRead = inp.nRead /\ inp'.pc # "panic")]_vars

\* C22: for every stream content, nil values included, every element of
\* Scope is an element of Items, so that Index() finds the item at Cursor in
\* Items whenever Cursor is a position of Scope.
C22_ScopeWithinItems ==
    /\ \A i \in 1..list.scope.len :
          \E j \in 1..list.items.len : ItemsSeq(list)[j] = ScopeSeq(list)[i]
    /\ list.cursor \in 0 .. list.scope.len - 1 => Index(list).index # NotFound

====
